---- MODULE Spec2Model ----
(***************************************************************************)
(* Model of the URL shortener of src/main.py: the in-memory registry       *)
(* fake_db and the four request handlers shorten_url,                      *)
(* redirect_to_long_url, get_all_urls and get_url_stats, run as coroutines *)
(* of one event loop.  A handler body is modelled statement by statement;  *)
(* a coroutine gives the loop up only at an await expression or when it    *)
(* returns, and the handler bodies contain no await expression.            *)
(***************************************************************************)
EXTENDS Integers, Sequences, FiniteSets, Bags, TLC

\* ---------------------------------------------------------------- bounds
\* Number of distinct long URLs a client may submit.
NumURLs == 3
\* Length of a short code (default 6 in the source, scaled down).
CodeLength == 1
\* Number of requests the server may have in flight at the same time.
MaxInFlight == 2
\* Total number of requests accepted over a run.
MaxRequests == 3

\* ---------------------------------------------------------------- values
\* A URL is a sequence of characters; the scheme and host, which no
\* conversion below changes, are kept as one element.
UrlPrefix == "https://example.com/"

\* The long URLs clients put in the body of POST /shorten: a plain one, ones
\* with characters that a conversion of the program rewrites, and ones that
\* are already in the rewritten form.
UrlPool ==
  << <<UrlPrefix, "x">>,
     <<UrlPrefix, "|", "{">>,
     <<UrlPrefix, "%", "7", "C", "%", "7", "B">>,
     <<UrlPrefix, "^">>,
     <<UrlPrefix, "|", "%", "7", "B">> >>

SubmittedUrls == {UrlPool[i] : i \in 1..NumURLs}

\* long_url: HttpUrl.  Validation of the request body turns the submitted
\* string into the URL value the handler receives: a character of the path
\* that the URL parser does not allow raw (a brace, a backquote, a space) is
\* percent-encoded; "|", "^" and "%" are kept.
RECURSIVE HttpUrl(_)
HttpUrl(s) ==
  IF s = <<>> THEN <<>>
  ELSE (IF Head(s) = "{" THEN <<"%", "7", "B">> ELSE <<Head(s)>>)
         \o HttpUrl(Tail(s))

\* The values url_create.long_url can take.
LongUrls == {HttpUrl(s) : s \in SubmittedUrls}

\* RedirectResponse(url=...): the Location header is the URL with every
\* character outside the safe set percent-encoded; "%" is safe, so what is
\* already encoded stays.
RECURSIVE Quote(_)
Quote(s) ==
  IF s = <<>> THEN <<>>
  ELSE (CASE Head(s) = "|" -> <<"%", "7", "C">>
          [] Head(s) = "^" -> <<"%", "5", "E">>
          [] OTHER -> <<Head(s)>>)
         \o Quote(Tail(s))

\* The long_url of a request that carries none.
NoUrl == <<>>
\* characters = string.ascii_letters + string.digits: 62 symbols in the
\* source, two of them here.
characters == <<"a", "b">>

Range(s) == {s[i] : i \in 1..Len(s)}

\* Every string generate_short_code can draw: `length` characters.
Codes == [1..CodeLength -> Range(characters)]

\* A path segment that is no string of the generator's keyspace.
OtherCode == <<"-">>

\* Values of the {short_code} path parameter.
PathArgs == Codes \cup {OtherCode}

\* request.base_url: scheme and host of the server, ending with a slash.
BaseUrls == {<<"h", "/">>}

\* ---------------------------------------------------------------- dict
\* fake_db is a Python dict: a sequence of entries in insertion order.
DictContains(d, k) == \E i \in 1..Len(d) : d[i].key = k

DictIndex(d, k) == CHOOSE i \in 1..Len(d) : d[i].key = k

DictGetItem(d, k) == d[DictIndex(d, k)].val

\* A store that rebinds the whole dictionary to the one new entry.
DictSetItemOnly(d, k, v) == <<[key |-> k, val |-> v]>>

\* d[k] = v: rebinds an existing key in place, appends a new one.
DictSetItem(d, k, v) ==
  IF DictContains(d, k)
    THEN [d EXCEPT ![DictIndex(d, k)].val = v]
    ELSE Append(d, [key |-> k, val |-> v])

\* A listing that stops one entry short.
DictValuesShort(d) == [i \in 1..(Len(d) - 1) |-> d[i].val]

DictValues(d) == [i \in 1..Len(d) |-> d[i].val]

\* ---------------------------------------------------------------- helpers
\* str.rstrip('/')
RECURSIVE RStrip(_)
RStrip(s) ==
  IF Len(s) > 0 /\ s[Len(s)] = "/" THEN RStrip(SubSeq(s, 1, Len(s) - 1)) ELSE s

\* f"{base_url}/{short_code}"
ShortUrl(base_url, code) == RStrip(base_url) \o <<"/">> \o code

\* A record built with the short URL where the short code belongs.
URLInfoSwapped(id, long_url, code, short_url, clicks) ==
  [id |-> id, long_url |-> long_url, short_url |-> code,
   clicks |-> clicks, short_code |-> short_url]

URLInfo(id, long_url, code, short_url, clicks) ==
  [id |-> id, long_url |-> long_url, short_url |-> short_url,
   clicks |-> clicks, short_code |-> code]

URLShortened(long_url, code, short_url) ==
  [long_url |-> long_url, short_url |-> short_url, short_code |-> code]

\* A scan that never finds the submitted URL.
FirstMatchNone(d, long_url) == 0

\* The loop of shorten_url over fake_db.items(): the index of the first
\* entry, in insertion order, whose long_url equals the submitted one; 0 if
\* the loop ends without a match.
FirstMatch(d, long_url) ==
  IF \E i \in 1..Len(d) : d[i].val.long_url = long_url
    THEN CHOOSE i \in 1..Len(d) :
           /\ d[i].val.long_url = long_url
           /\ \A j \in 1..(i - 1) : d[j].val.long_url # long_url
    ELSE 0

\* A generator that returns its first candidate without the membership test.
IsFreeUnchecked(d, code) == TRUE

\* A generator whose membership test is inverted.
IsFreeInverted(d, code) == DictContains(d, code)

\* The test of generate_short_code's loop: the candidate is returned when
\* it is no key of fake_db.
IsFree(d, code) == ~DictContains(d, code)

\* fastapi.status; 200 is the status of a GET route that sets none.
HTTP_201_CREATED == 201
HTTP_307_TEMPORARY_REDIRECT == 307
HTTP_404_NOT_FOUND == 404
HTTP_200_OK == 200


\* ---------------------------------------------------------------- state
VARIABLES
  fake_db,  \* the registry: dict short code -> URLInfo
  tasks,    \* the coroutines of the requests in flight (a bag): each one's
            \* request, local variables and position, and (history) whether
            \* another request changed what this one works on since it arrived
  resp,     \* the response, with its request, that the latest step
            \* returned; NoResponse if that step returned none
  hits,     \* history: successful Redirect calls returned, per code
  issued,   \* history: <<long URL, code>> pairs returned by shorten_url
  created,  \* history: <<long URL, code>> pairs of the records inserted
  nreq      \* number of requests accepted so far

vars == <<fake_db, tasks, resp, hits, issued, created, nreq>>

InFlight == BagToSet(tasks)

\* Number of handlers that have returned.
Completed == nreq - BagCardinality(tasks)

\* Handlers that await between the read and the store of `clicks += 1`,
\* between the scan and the generation of a code, or between the
\* generator's membership test and the insertion.
AwaitInIncrement == {"write"}
AwaitAfterScan == {"gen"}
AwaitBeforeStore == {"store"}

\* A generator that yields to the event loop between its draws.
AwaitInGenerator == {"gen", "test"}

\* The positions at which a handler's coroutine suspends and lets the event
\* loop run another one: the await expressions of the handler bodies.  There
\* is none in shorten_url, redirect_to_long_url, get_all_urls, get_url_stats.
AwaitPoints == {}

\* A coroutine that has started its body and has not suspended holds the
\* event loop ("start" is a coroutine scheduled and not yet run).
HoldsLoop(t) == t.pc \notin ({"start"} \cup AwaitPoints)

\* The single-threaded event loop runs t only when no other coroutine is in
\* the middle of its body.
CanRun(t) ==
  /\ t \in InFlight
  /\ \A q \in InFlight : HoldsLoop(q) => (q = t /\ CopiesIn(t, tasks) = 1)

\* The coroutine t moves on as t2.
Step(t, t2) == (tasks (-) SetToBag({t})) (+) SetToBag({t2})

\* The coroutine t returns.
Finish(t) == tasks (-) SetToBag({t})

\* History: the bag b with `raced` set in every coroutine of handler op
\* whose short_code is in `codes`.
Mark(b, op, codes) ==
  LET S == BagToSet(b)
      flag(q) == IF q.op = op /\ q.short_code \in codes
                   THEN [q EXCEPT !.raced = TRUE] ELSE q
      count(x) ==
        (IF x \in S /\ flag(x) = x THEN b[x] ELSE 0)
        + (LET y == [x EXCEPT !.raced = FALSE] IN
             IF y # x /\ y \in S /\ flag(y) = x THEN b[y] ELSE 0)
  IN [x \in {flag(q) : q \in S} |-> count(x)]

\* What is recorded of a handler that returns.  `fresh` tells a shorten_url
\* call that inserted a record from one that found an existing one; `raced`
\* tells that, while this request was in flight, another Redirect raised the
\* count of its code (a Redirect) or another call inserted a record (a
\* shorten_url call).
Response(t, status, body, fresh) ==
  [long_url |-> t.long_url, short_code |-> t.short_code, op |-> t.op,
   raced |-> t.raced, status |-> status, body |-> body, fresh |-> fresh]

NoResponse ==
  [long_url |-> NoUrl, short_code |-> <<>>, op |-> "none",
   raced |-> FALSE, status |-> 0, body |-> <<>>, fresh |-> FALSE]

Init ==
  /\ fake_db = <<>>
  /\ tasks = EmptyBag
  /\ resp = NoResponse
  /\ hits = [c \in PathArgs |-> 0]
  /\ issued = {}
  /\ created = {}
  /\ nreq = 0

\* ---------------------------------------------------------------- arrival
\* The server accepts a request and schedules the handler's coroutine.
Accept(t) ==
  /\ nreq < MaxRequests
  /\ BagCardinality(tasks) < MaxInFlight
  /\ tasks' = tasks (+) SetToBag({t})
  /\ nreq' = nreq + 1
  /\ resp' = NoResponse
  /\ UNCHANGED <<fake_db, hits, issued, created>>

Task(op, long_url, base_url, code) ==
  [base_url |-> base_url, long_url |-> long_url, short_code |-> code,
   pc |-> "start", op |-> op, raced |-> FALSE, clicks_tmp |-> 0]

\* POST /shorten
ArriveShorten ==
  \E s \in SubmittedUrls, b \in BaseUrls :
    Accept(Task("shorten", HttpUrl(s), b, <<>>))

\* GET /{short_code}
ArriveRedirect ==
  \E c \in PathArgs : Accept(Task("redirect", NoUrl, <<>>, c))

\* GET /urls/all
ArriveAll == Accept(Task("all", NoUrl, <<>>, <<>>))

\* GET /urls/{short_code}/stats
ArriveStats ==
  \E c \in PathArgs : Accept(Task("stats", NoUrl, <<>>, c))

\* ---------------------------------------------------------------- shorten_url
\* uuid.uuid4(): an identifier no earlier call returned.
Uuid4 == Cardinality(created) + 1

\* A scan that, on finding the record, stores it again with clicks at 0.
ShortenScanReset(t) ==
  /\ t.pc = "start" /\ t.op = "shorten" /\ CanRun(t)
  /\ LET i == FirstMatch(fake_db, t.long_url) IN
       IF i # 0
         THEN /\ tasks' = Finish(t)
              /\ resp' = Response([t EXCEPT !.short_code = fake_db[i].key],
                           HTTP_201_CREATED,
                           URLShortened(t.long_url, fake_db[i].key,
                                        ShortUrl(t.base_url, fake_db[i].key)),
                           FALSE)
              /\ issued' = issued \cup {<<t.long_url, fake_db[i].key>>}
              /\ fake_db' = DictSetItem(fake_db, fake_db[i].key,
                              [fake_db[i].val EXCEPT !.clicks = 0])
         ELSE /\ tasks' = Step(t, [t EXCEPT !.pc = "gen"])
              /\ resp' = NoResponse
              /\ UNCHANGED <<issued, fake_db>>
  /\ UNCHANGED <<hits, created, nreq>>

\* Lines 85-95: the scan for an existing record of the same long URL.
ShortenScan(t) ==
  /\ t.pc = "start" /\ t.op = "shorten" /\ CanRun(t)
  /\ LET i == FirstMatch(fake_db, t.long_url) IN
       IF i # 0
         THEN /\ tasks' = Finish(t)
              /\ resp' = Response([t EXCEPT !.short_code = fake_db[i].key],
                           HTTP_201_CREATED,
                           URLShortened(t.long_url, fake_db[i].key,
                                        ShortUrl(t.base_url, fake_db[i].key)),
                           FALSE)
              /\ issued' = issued \cup {<<t.long_url, fake_db[i].key>>}
         ELSE /\ tasks' = Step(t, [t EXCEPT !.pc = "gen"])
              /\ resp' = NoResponse
              /\ UNCHANGED issued
  /\ UNCHANGED <<fake_db, hits, created, nreq>>

\* Line 63: generate_short_code draws a candidate.
GenerateDraw(t) ==
  /\ t.pc = "gen" /\ CanRun(t)
  /\ \E candidate \in Codes :
       tasks' = Step(t, [t EXCEPT !.pc = "test", !.short_code = candidate])
  /\ resp' = NoResponse
  /\ UNCHANGED <<fake_db, hits, issued, created, nreq>>

\* Lines 64-65: the candidate is returned if it is free, else the loop
\* goes round again.
GenerateTest(t) ==
  /\ t.pc = "test" /\ CanRun(t)
  /\ tasks' = Step(t, [t EXCEPT !.pc =
                 IF IsFree(fake_db, t.short_code) THEN "store" ELSE "gen"])
  /\ resp' = NoResponse
  /\ UNCHANGED <<fake_db, hits, issued, created, nreq>>

\* Lines 98-109: build the record, store it under short_code, return.
ShortenStore(t) ==
  /\ t.pc = "store" /\ CanRun(t)
  /\ LET short_url_full == ShortUrl(t.base_url, t.short_code) IN
       /\ fake_db' = DictSetItem(fake_db, t.short_code,
                       URLInfo(Uuid4, t.long_url, t.short_code, short_url_full, 0))
       /\ resp' = Response(t, HTTP_201_CREATED,
                    URLShortened(t.long_url, t.short_code, short_url_full), TRUE)
  /\ tasks' = Mark(Finish(t), "shorten", Codes \cup {<<>>})
  /\ issued' = issued \cup {<<t.long_url, t.short_code>>}
  /\ created' = created \cup {<<t.long_url, t.short_code>>}
  /\ UNCHANGED <<hits, nreq>>

\* ---------------------------------------------------------------- redirect_to_long_url
NotFoundDetail == "URL corta no encontrada"

\* A handler that answers 200 with an empty body where it should raise.
EmptyOk(t) == Response(t, HTTP_200_OK, <<>>, FALSE)

\* raise HTTPException(status_code=status.HTTP_404_NOT_FOUND, detail=...)
NotFound(t) == Response(t, HTTP_404_NOT_FOUND, NotFoundDetail, FALSE)

\* Lines 124-128: the membership test and the 404.
RedirectCheck(t) ==
  /\ t.pc = "start" /\ t.op = "redirect" /\ CanRun(t)
  /\ IF ~DictContains(fake_db, t.short_code)
       THEN /\ tasks' = Finish(t)
            /\ resp' = NotFound(t)
       ELSE /\ tasks' = Step(t, [t EXCEPT !.pc = "read"])
            /\ resp' = NoResponse
  /\ UNCHANGED <<fake_db, hits, issued, created, nreq>>

\* Lines 130-131: url_info = fake_db[short_code]; the read of url_info.clicks.
RedirectRead(t) ==
  /\ t.pc = "read" /\ CanRun(t)
  /\ tasks' = Step(t, [t EXCEPT !.pc = "write",
                         !.clicks_tmp = DictGetItem(fake_db, t.short_code).clicks])
  /\ resp' = NoResponse
  /\ UNCHANGED <<fake_db, hits, issued, created, nreq>>

\* An increment that stores back the value it read.
IncrementedLost(n) == n

\* An increment that counts a visit twice.
IncrementedTwice(n) == n + 2

\* The value `url_info.clicks += 1` stores, from the value it read.
Incremented(n) == n + 1

\* A store that raises the count of every record.
RedirectWriteAll(t) ==
  /\ t.pc = "write" /\ CanRun(t)
  /\ fake_db' = [i \in 1..Len(fake_db) |->
                   [fake_db[i] EXCEPT !.val.clicks = @ + 1]]
  /\ tasks' = Mark(Finish(t), "redirect", {t.short_code})
                 (+) SetToBag({[t EXCEPT !.pc = "ret"]})
  /\ resp' = NoResponse
  /\ UNCHANGED <<hits, issued, created, nreq>>

\* Line 131: the store of url_info.clicks.
RedirectWrite(t) ==
  /\ t.pc = "write" /\ CanRun(t)
  /\ fake_db' = [fake_db EXCEPT ![DictIndex(fake_db, t.short_code)].val.clicks =
                   Incremented(t.clicks_tmp)]
  /\ tasks' = Mark(Finish(t), "redirect", {t.short_code})
                 (+) SetToBag({[t EXCEPT !.pc = "ret"]})
  /\ resp' = NoResponse
  /\ UNCHANGED <<hits, issued, created, nreq>>

\* Line 133: the 307 response whose Location is url_info.long_url as
\* RedirectResponse encodes it.
RedirectReturn(t) ==
  /\ t.pc = "ret" /\ CanRun(t)
  /\ resp' = Response(t, HTTP_307_TEMPORARY_REDIRECT,
                      Quote(DictGetItem(fake_db, t.short_code).long_url), FALSE)
  /\ hits' = [hits EXCEPT ![t.short_code] = @ + 1]
  /\ tasks' = Finish(t)
  /\ UNCHANGED <<fake_db, issued, created, nreq>>

\* ---------------------------------------------------------------- get_all_urls
\* Line 146: list(fake_db.values()).
GetAllUrls(t) ==
  /\ t.pc = "start" /\ t.op = "all" /\ CanRun(t)
  /\ resp' = Response(t, HTTP_200_OK, DictValues(fake_db), FALSE)
  /\ tasks' = Finish(t)
  /\ UNCHANGED <<fake_db, hits, issued, created, nreq>>

\* ---------------------------------------------------------------- get_url_stats
\* A stats handler that counts the lookup as a visit.
GetUrlStatsCounting(t) ==
  /\ t.pc = "start" /\ t.op = "stats" /\ CanRun(t)
  /\ IF ~DictContains(fake_db, t.short_code)
       THEN /\ resp' = NotFound(t)
            /\ UNCHANGED fake_db
       ELSE /\ resp' = Response(t, HTTP_200_OK,
                                DictGetItem(fake_db, t.short_code), FALSE)
            /\ fake_db' = [fake_db EXCEPT
                 ![DictIndex(fake_db, t.short_code)].val.clicks = @ + 1]
  /\ tasks' = Finish(t)
  /\ UNCHANGED <<hits, issued, created, nreq>>

\* Lines 162-167.
GetUrlStats(t) ==
  /\ t.pc = "start" /\ t.op = "stats" /\ CanRun(t)
  /\ resp' = IF ~DictContains(fake_db, t.short_code)
               THEN NotFound(t)
               ELSE Response(t, HTTP_200_OK, DictGetItem(fake_db, t.short_code), FALSE)
  /\ tasks' = Finish(t)
  /\ UNCHANGED <<fake_db, hits, issued, created, nreq>>

\* ---------------------------------------------------------------- the server
Next ==
  \/ ArriveShorten
  \/ ArriveRedirect
  \/ ArriveAll
  \/ ArriveStats
  \/ \E t \in InFlight : ShortenScan(t)
  \/ \E t \in InFlight : GenerateDraw(t)
  \/ \E t \in InFlight : GenerateTest(t)
  \/ \E t \in InFlight : ShortenStore(t)
  \/ \E t \in InFlight : RedirectCheck(t)
  \/ \E t \in InFlight : RedirectRead(t)
  \/ \E t \in InFlight : RedirectWrite(t)
  \/ \E t \in InFlight : RedirectReturn(t)
  \/ \E t \in InFlight : GetAllUrls(t)
  \/ \E t \in InFlight : GetUrlStats(t)

Spec == Init /\ [][Next]_vars

\* generate_short_code draws a candidate that is free.
GenerateDrawFree(t) ==
  /\ t.pc = "gen" /\ CanRun(t)
  /\ \E candidate \in Codes :
       /\ IsFree(fake_db, candidate)
       /\ tasks' = Step(t, [t EXCEPT !.pc = "test", !.short_code = candidate])
  /\ resp' = NoResponse
  /\ UNCHANGED <<fake_db, hits, issued, created, nreq>>

\* A step of the body of some handler.
HandlerStep ==
  \E t \in InFlight :
    \/ ShortenScan(t) \/ GenerateDraw(t) \/ GenerateTest(t) \/ ShortenStore(t)
    \/ RedirectCheck(t) \/ RedirectRead(t) \/ RedirectWrite(t)
    \/ RedirectReturn(t) \/ GetAllUrls(t) \/ GetUrlStats(t)

\* The event loop keeps running the coroutines that are ready, and
\* random.choice, uniform and independent from draw to draw, does not avoid
\* the free codes for ever.
Fairness ==
  /\ WF_vars(HandlerStep)
  /\ SF_vars(\E t \in InFlight : GenerateDrawFree(t))

FairSpec == Spec /\ Fairness

\* ---------------------------------------------------------------- late readers
\* A request accepted when the budget of MaxRequests is spent: the server
\* takes one more, a GET /urls/all or GET /urls/{short_code}/stats that
\* arrives while a shorten_url call is in generate_short_code with every
\* code taken (the arrivals in every other state are within the budget).
AcceptLate(t) ==
  /\ nreq = MaxRequests
  /\ \A c \in Codes : DictContains(fake_db, c)
  /\ \E q \in InFlight : q.op = "shorten" /\ q.pc \in {"gen", "test"}
  /\ BagCardinality(tasks) < MaxInFlight
  /\ tasks' = tasks (+) SetToBag({t})
  /\ nreq' = nreq + 1
  /\ resp' = NoResponse
  /\ UNCHANGED <<fake_db, hits, issued, created>>

ArriveAllLate == AcceptLate(Task("all", NoUrl, <<>>, <<>>))

ArriveStatsLate ==
  \E c \in PathArgs : AcceptLate(Task("stats", NoUrl, <<>>, c))

ReadNext ==
  \/ Next
  \/ ArriveAllLate
  \/ ArriveStatsLate

ReadSpec == Init /\ [][ReadNext]_vars /\ Fairness

\* ---------------------------------------------------------------- properties
\* The indices of the records of long URL u, and the codes returned for u.
RecordsFor(u) == {i \in 1..Len(fake_db) : fake_db[i].val.long_url = u}
CodesIssued(u) == {c \in Codes : <<u, c>> \in issued}

\* A handler returns in this step, and resp' is its response.
Returns == Completed' = Completed + 1

\* A Redirect on code c is inside its body.
RedirectInBody(c) ==
  \E t \in InFlight : t.op = "redirect" /\ t.short_code = c /\ t.pc # "start"

\* C1 (uniqueness): the codes shorten_url returned for different long URLs
\* are different, and no two records of the registry carry the same code.
C1_Uniqueness ==
  /\ \A x \in issued, y \in issued : x[1] # y[1] => x[2] # y[2]
  /\ \A i \in 1..Len(fake_db), j \in 1..Len(fake_db) :
       i # j => fake_db[i].val.short_code # fake_db[j].val.short_code

\* Two calls with different long URLs have returned.
C1_Witness == \E x \in issued, y \in issued : x[1] # y[1]

\* C2 (idempotence): all the calls of shorten_url with one long URL have
\* returned the same code, and once a call has returned the registry holds
\* exactly one record of that URL.
C2_Idempotence ==
  \A u \in LongUrls :
    /\ Cardinality(CodesIssued(u)) <= 1
    /\ CodesIssued(u) # {} => Cardinality(RecordsFor(u)) = 1

\* A repeated call has returned the code of the existing record.
C2_Witness ==
  /\ resp.op = "shorten" /\ resp.status = HTTP_201_CREATED /\ ~resp.fresh
  /\ CodesIssued(resp.long_url) = {resp.short_code}

\* C3 (redirect correctness) as stated: a Redirect on a code that shorten_url
\* has returned for long URL u answers 307 with exactly u.  It fails for a
\* long URL with a character RedirectResponse percent-encodes.
C3_RedirectCorrect ==
  [][(Returns /\ resp'.op = "redirect") =>
       \A x \in issued :
         x[2] = resp'.short_code =>
           (resp'.status = HTTP_307_TEMPORARY_REDIRECT /\ resp'.body = x[1])]_vars

\* A Redirect on an issued code has answered with the encoded form of its
\* long URL, which is not the long URL.
C3_Witness ==
  /\ resp.op = "redirect" /\ resp.status = HTTP_307_TEMPORARY_REDIRECT
  /\ \E x \in issued :
       /\ x[2] = resp.short_code
       /\ resp.body = Quote(x[1])
       /\ resp.body # x[1]

\* C4 (click counting): a record just inserted has clicks 0, and Stats on a
\* code reports as clicks the number of successful Redirects returned on it.
C4_ClickCounting ==
  [][Returns =>
       /\ (resp'.op = "stats" /\ resp'.status = HTTP_200_OK) =>
            resp'.body.clicks = hits[resp'.short_code]
       /\ (resp'.op = "shorten" /\ resp'.fresh) =>
            /\ DictGetItem(fake_db', resp'.short_code).clicks = 0
            /\ hits[resp'.short_code] = 0]_vars

\* Stats has reported a count of at least one Redirect.
C4_Witness ==
  /\ resp.op = "stats" /\ resp.status = HTTP_200_OK
  /\ resp.body.clicks >= 1 /\ resp.body.clicks = hits[resp.short_code]

\* C5 (concurrent increment): whenever no Redirect on a code is inside its
\* body, the record's clicks equal the number of Redirects returned on it,
\* however the Redirects overlapped.
C5_ConcurrentIncrement ==
  \A i \in 1..Len(fake_db) :
    ~RedirectInBody(fake_db[i].key) =>
      fake_db[i].val.clicks = hits[fake_db[i].key]

\* Two Redirects on one code were in flight together and both have
\* returned: the later one found a count raised by the other.
C5_Witness ==
  /\ resp.op = "redirect" /\ resp.status = HTTP_307_TEMPORARY_REDIRECT
  /\ resp.raced
  /\ ~RedirectInBody(resp.short_code)
  /\ hits[resp.short_code] >= 2
  /\ DictGetItem(fake_db, resp.short_code).clicks = hits[resp.short_code]


\* The codes under which a record of long URL u was inserted.
CodesCreated(u) == {c \in Codes : <<u, c>> \in created}

\* C6 (concurrent create of one URL): every long URL has at most one record,
\* at most one code was ever allocated to it, and every code returned for it
\* is that one, however the calls overlapped.
C6_ConcurrentCreate ==
  \A u \in LongUrls :
    /\ Cardinality(RecordsFor(u)) <= 1
    /\ Cardinality(CodesCreated(u)) <= 1
    /\ CodesIssued(u) \subseteq CodesCreated(u)

\* A call has returned the code of the registry's only record, which
\* another call for the same URL inserted while this one was in flight.
C6_Witness ==
  /\ resp.op = "shorten" /\ resp.status = HTTP_201_CREATED
  /\ ~resp.fresh /\ resp.raced
  /\ Len(fake_db) = 1
  /\ CodesCreated(resp.long_url) = {resp.short_code}

\* C7 (concurrent code allocation): no step removes an entry of the
\* registry or rebinds its key to a record of another long URL, and no code
\* was allocated to two long URLs.
C7_ConcurrentAllocation ==
  [][/\ \A i \in 1..Len(fake_db) :
          /\ i <= Len(fake_db')
          /\ fake_db'[i].key = fake_db[i].key
          /\ fake_db'[i].val.long_url = fake_db[i].val.long_url
     /\ \A x \in created', y \in created' : x[2] = y[2] => x[1] = y[1]]_vars

\* A call has inserted its record after another call, in flight with it,
\* inserted one for a different URL under a different code.
C7_Witness ==
  /\ resp.op = "shorten" /\ resp.fresh /\ resp.raced
  /\ \E x \in created :
       x[1] # resp.long_url /\ x[2] # resp.short_code
       /\ DictContains(fake_db, x[2])
       /\ DictGetItem(fake_db, x[2]).long_url = x[1]
  /\ DictGetItem(fake_db, resp.short_code).long_url = resp.long_url

\* C8 (not found): a Redirect or Stats on a code that is no key of the
\* registry answers 404 and changes neither the registry nor any count.
C8_NotFound ==
  [][(/\ Returns
      /\ resp'.op \in {"redirect", "stats"}
      /\ ~DictContains(fake_db, resp'.short_code)) =>
       /\ resp'.status = 404
       /\ fake_db' = fake_db
       /\ hits' = hits]_vars

\* A Redirect on an unknown code has answered 404 while the registry holds
\* records.
C8_Witness ==
  /\ resp.op = "redirect" /\ resp.status = 404
  /\ Len(fake_db) >= 1
  /\ ~DictContains(fake_db, resp.short_code)

\* C9 (listing completeness): ListAll returns one record for each record
\* inserted so far, with the long URL and code of its insertion, one per
\* long URL for which shorten_url has returned, and changes nothing.
C9_ListingComplete ==
  [][(Returns /\ resp'.op = "all") =>
       LET body == resp'.body IN
         /\ {<<body[i].long_url, body[i].short_code>> : i \in 1..Len(body)} = created
         /\ Len(body) = Cardinality(created)
         /\ Len(body) = Cardinality({x[1] : x \in issued})
         /\ fake_db' = fake_db]_vars

\* ListAll has returned two records.
C9_Witness ==
  /\ resp.op = "all" /\ resp.status = HTTP_200_OK
  /\ Len(resp.body) >= 2

\* Some code of the keyspace is no key of the registry.
HasFree == \E c \in Codes : ~DictContains(fake_db, c)

ShortenInFlight == \E t \in InFlight : t.op = "shorten"

\* A shorten_url call is inside its body: it found no record of its URL.
ShortenInBody == \E t \in InFlight : t.op = "shorten" /\ t.pc # "start"

\* C10 as stated: every shorten_url call eventually returns, in every state
\* of the registry.
C10_AlwaysCompletes == ShortenInFlight ~> ~ShortenInFlight

\* C10 as amended: shorten_url has no failure outcome; a call that runs
\* while some code of the keyspace is free eventually returns; a call for
\* a new URL that runs while every code is a key never leaves the generator.
C10_CompletesWhenFree ==
  /\ [][(Returns /\ resp'.op = "shorten") => resp'.status = 201]_vars
  /\ (ShortenInBody /\ HasFree) ~> ~ShortenInBody
  /\ [][(ShortenInBody /\ ~HasFree) => (ShortenInBody' /\ ~HasFree')]_vars

\* A call has inserted a record when only some of the codes were free.
C10_Witness ==
  /\ resp.op = "shorten" /\ resp.fresh /\ resp.status = 201
  /\ Len(fake_db) >= 2

\* ---------------------------------------------------------------- C11
\* C11: get_url_stats is read-only.  A call that answers 200 returns the
\* record stored under its code as it is at that moment, clicks included,
\* and leaves fake_db as it was: the count is not raised, so a second call
\* with no Redirect in between reads the same record and the same count.
C11_StatsReadOnly ==
  [][(Returns /\ resp'.op = "stats" /\ resp'.status = HTTP_200_OK)
       => /\ DictContains(fake_db, resp'.short_code)
          /\ resp'.body = DictGetItem(fake_db, resp'.short_code)
          /\ fake_db' = fake_db
          /\ resp'.body = DictGetItem(fake_db', resp'.short_code)]_vars

\* A stats call has just answered with a record that has been visited, and
\* the registry still holds that record with the count the call reported.
C11_Witness ==
  /\ resp.op = "stats" /\ resp.status = HTTP_200_OK
  /\ DictContains(fake_db, resp.short_code)
  /\ resp.body = DictGetItem(fake_db, resp.short_code)
  /\ resp.body.clicks >= 1

\* ---------------------------------------------------------------- C12
\* C12 (record lifecycle): an entry of fake_db stays in every later state
\* under the same key, and of its record only clicks may differ from one
\* state to the next (id, long_url, short_code and short_url are kept); the
\* registry grows only in the step in which a shorten_url call returns the
\* record it has just inserted, and then by that one record.
C12_RecordLifecycle ==
  [][/\ \A i \in 1..Len(fake_db) :
          /\ i <= Len(fake_db')
          /\ fake_db'[i] =
               [fake_db[i] EXCEPT !.val.clicks = fake_db'[i].val.clicks]
     /\ Len(fake_db') # Len(fake_db) =>
          /\ Len(fake_db') = Len(fake_db) + 1
          /\ Returns /\ resp'.op = "shorten" /\ resp'.fresh
          /\ fake_db'[Len(fake_db')].key = resp'.short_code
          /\ fake_db'[Len(fake_db')].val.long_url = resp'.long_url]_vars

\* The registry holds two records; the older one has been visited since and
\* is still the record that was inserted, under its first identifier.
C12_Witness ==
  /\ Len(fake_db) >= 2
  /\ fake_db[1].val.clicks >= 1
  /\ fake_db[1].val.id = 1
  /\ <<fake_db[1].val.long_url, fake_db[1].key>> \in created

\* ---------------------------------------------------------------- C13
\* C13 (monotonic click count): in every state every record's clicks is at
\* least 0, and from one state to the next it either stays or goes up by
\* exactly 1; it goes up only in the step in which a redirect_to_long_url
\* call on that record's code, past its membership test, stores the count
\* (line 131) and goes on to its 307 answer.
C13_MonotonicClicks ==
  /\ [](\A i \in 1..Len(fake_db) : fake_db[i].val.clicks >= 0)
  /\ [][\A i \in 1..Len(fake_db) :
          /\ i <= Len(fake_db')
          /\ \/ fake_db'[i].val.clicks = fake_db[i].val.clicks
             \/ /\ fake_db'[i].val.clicks = fake_db[i].val.clicks + 1
                /\ \E t \in InFlight :
                     /\ t.op = "redirect" /\ t.pc = "write"
                     /\ t.short_code = fake_db[i].key
                     /\ [t EXCEPT !.pc = "ret"] \in BagToSet(tasks')
                /\ \A j \in 1..Len(fake_db) :
                     j # i => fake_db'[j].val.clicks = fake_db[j].val.clicks]_vars

\* A record has gone from 0 to 2 by two Redirects that were in flight
\* together and have both answered.
C13_Witness ==
  \E i \in 1..Len(fake_db) :
    /\ fake_db[i].val.clicks = 2
    /\ hits[fake_db[i].key] = 2
    /\ resp.op = "redirect" /\ resp.short_code = fake_db[i].key
    /\ resp.status = HTTP_307_TEMPORARY_REDIRECT /\ resp.raced

\* ---------------------------------------------------------------- C14
\* C14 (deduplicated create): a shorten_url call that starts to run when its
\* long URL already has a record returns in that step, with the key of that
\* record as its short code; it inserts nothing, takes no new code, and
\* leaves fake_db as it was, the clicks of the existing record included.
\* (A waiting call leaves the bag either by running or, as history, by being
\* flagged when another call stores; the latter step is set aside.)
C14_DedupNoEffect ==
  [][\A t \in InFlight :
       (/\ t.op = "shorten" /\ t.pc = "start"
        /\ RecordsFor(t.long_url) # {}
        /\ CopiesIn(t, tasks') < CopiesIn(t, tasks)
        /\ \A q \in InFlight : q.pc # "store")
         => /\ tasks' = Finish(t)
            /\ resp'.op = "shorten" /\ resp'.long_url = t.long_url
            /\ ~resp'.fresh
            /\ \E i \in RecordsFor(t.long_url) :
                 /\ resp'.short_code = fake_db[i].key
                 /\ resp'.body.short_code = fake_db[i].key
            /\ fake_db' = fake_db
            /\ created' = created]_vars

\* A call has just returned the code of a record that had been visited
\* before, and the record still shows the visit.
C14_Witness ==
  /\ resp.op = "shorten" /\ ~resp.fresh /\ resp.status = HTTP_201_CREATED
  /\ DictContains(fake_db, resp.short_code)
  /\ DictGetItem(fake_db, resp.short_code).long_url = resp.long_url
  /\ DictGetItem(fake_db, resp.short_code).clicks >= 1
  /\ Cardinality(created) = Len(fake_db)

\* ---------------------------------------------------------------- C15
\* C15 (generator postcondition): whenever generate_short_code has returned
\* a code to shorten_url (the call is about to store), that code is no key
\* of fake_db; a candidate that is a key is rejected and the loop draws
\* again, a candidate that is no key is returned; and no step of the
\* generator changes fake_db.
C15_GeneratorPost ==
  /\ [](\A t \in InFlight :
          t.pc = "store" => ~DictContains(fake_db, t.short_code))
  /\ [][\A t \in InFlight :
          /\ (t.pc = "test" /\ CopiesIn(t, tasks') < CopiesIn(t, tasks))
               => /\ fake_db' = fake_db
                  /\ tasks' = Step(t, [t EXCEPT !.pc =
                       IF DictContains(fake_db, t.short_code)
                         THEN "gen" ELSE "store"])
          /\ (t.pc = "gen" /\ CopiesIn(t, tasks') < CopiesIn(t, tasks))
               => /\ fake_db' = fake_db
                  /\ \E c \in Codes :
                       tasks' = Step(t, [t EXCEPT !.pc = "test",
                                                  !.short_code = c])]_vars

\* The generator has just rejected a candidate that is a key and is about
\* to draw again, with a code still free.
C15_Witness ==
  /\ HasFree
  /\ \E t \in InFlight :
       /\ t.pc = "gen" /\ t.short_code \in Codes
       /\ DictContains(fake_db, t.short_code)

\* ---------------------------------------------------------------- C16
Readers == {"all", "stats"}

ReaderInFlight == \E t \in InFlight : t.op \in Readers

\* A shorten_url or redirect_to_long_url call is in the middle of its body.
WriterInBody ==
  \E t \in InFlight : t.op \in {"shorten", "redirect"} /\ t.pc # "start"

\* C16 as stated: every get_all_urls and get_url_stats call eventually
\* returns, whatever shorten_url and redirect_to_long_url calls are in
\* progress, a shorten_url call that is still drawing codes included.
C16_ReadersAlwaysComplete == ReaderInFlight ~> ~ReaderInFlight

\* C16 as amended: no reader returns while a writer is in the middle of its
\* body (the handlers have no await, so the reader waits for the writer to
\* return); a waiting reader eventually returns unless a shorten_url call is
\* drawing codes with every code of the keyspace taken, and from then on the
\* reader waits for ever.
C16_ReadersWaitForWriters ==
  /\ [][WriterInBody => ~(Returns /\ resp'.op \in Readers)]_vars
  /\ ReaderInFlight ~> (~ReaderInFlight \/ (ShortenInBody /\ ~HasFree))
  /\ [][(ReaderInFlight /\ ShortenInBody /\ ~HasFree)
          => (ReaderInFlight' /\ ShortenInBody' /\ ~HasFree')]_vars

\* A reader is waiting behind a shorten_url call that draws codes when every
\* code is a key.
C16_Witness ==
  /\ ReaderInFlight
  /\ ~HasFree
  /\ \E t \in InFlight : t.op = "shorten" /\ t.pc \in {"gen", "test"}

\* ---------------------------------------------------------------- C17
\* C17 (key/record consistency): in every reachable state every key of
\* fake_db is bound once, and the record under key k has short_code k; so a
\* get_url_stats answer for k carries short_code k, and every record that
\* get_all_urls lists is the record stored under its own short_code, the
\* key that redirect_to_long_url resolves.
C17_KeyRecordConsistent ==
  /\ \A i \in 1..Len(fake_db) :
       /\ fake_db[i].val.short_code = fake_db[i].key
       /\ \A j \in 1..Len(fake_db) : fake_db[j].key = fake_db[i].key => j = i
  /\ (resp.op = "stats" /\ resp.status = HTTP_200_OK)
       => resp.body.short_code = resp.short_code
  /\ resp.op = "all"
       => \A n \in 1..Len(resp.body) :
            /\ DictContains(fake_db, resp.body[n].short_code)
            /\ DictGetItem(fake_db, resp.body[n].short_code) = resp.body[n]

\* get_all_urls has just listed two records, each stored under its own code.
C17_Witness ==
  /\ resp.op = "all" /\ Len(resp.body) >= 2
  /\ \A n \in 1..Len(resp.body) : fake_db[n].key = resp.body[n].short_code
  /\ fake_db[1].key # fake_db[2].key

\* ---------------------------------------------------------------- C18
\* C18 (Redirect touches only its target): no step of a successful
\* redirect_to_long_url call on code c, from its membership test to its 307
\* answer, changes the keys of fake_db or any record stored under another
\* key, and of the record under c it changes nothing but clicks.  (The call
\* t steps when it leaves the bag while no other call stores or writes; a
\* store or write of another call only flags t, as history.)
C18_RedirectFrame ==
  [][\A t \in InFlight :
       (/\ t.op = "redirect"
        /\ DictContains(fake_db, t.short_code)
        /\ CopiesIn(t, tasks') < CopiesIn(t, tasks)
        /\ \A q \in InFlight : q # t => q.pc \notin {"write", "store"})
         => /\ Len(fake_db') = Len(fake_db)
            /\ \A i \in 1..Len(fake_db) :
                 /\ fake_db'[i].key = fake_db[i].key
                 /\ fake_db[i].key # t.short_code => fake_db'[i] = fake_db[i]
                 /\ fake_db[i].key = t.short_code =>
                      fake_db'[i] = [fake_db[i] EXCEPT
                                       !.val.clicks = fake_db'[i].val.clicks]]_vars

\* A Redirect has just answered for the second of two records; the first
\* has not been counted.
C18_Witness ==
  /\ resp.op = "redirect" /\ resp.status = HTTP_307_TEMPORARY_REDIRECT
  /\ Len(fake_db) >= 2
  /\ fake_db[2].key = resp.short_code
  /\ fake_db[2].val.clicks = 1
  /\ fake_db[1].val.clicks = 0

====
